---------------------------- MODULE Spec2Model ----------------------------
(***************************************************************************)
(* Model of the Garmin demo repository:                                    *)
(*   - Garmin/Garmin_info.py: the Recovery Score API (POST and GET         *)
(*     /training-status),                                                  *)
(*   - Garmin/front_end_data_display/nice_front_end_of_data.py: the        *)
(*     Fitness Data API over SAMPLE_DATA,                                  *)
(*   - Garmin/Garmin_data/data_creation/generate_data.py: the generator of *)
(*     fake Garmin data.                                                   *)
(*                                                                         *)
(* Python floats are modelled on a grid of hundredths, together with the   *)
(* three non-finite values a float can hold (nan, inf, -inf); comparisons  *)
(* follow IEEE 754 as Python's < and > do: every ordered comparison with   *)
(* nan is false.                                                           *)
(***************************************************************************)
EXTENDS Integers, Sequences, FiniteSets, TLC

VARIABLES
    post,        \* last exchange served by POST /training-status
    get,         \* last exchange served by GET /training-status
    last,        \* which of the two endpoints served the most recent request
    first,       \* the very first training-status exchange of the process
    SAMPLE_DATA, \* module-level dict of nice_front_end_of_data.py
    fe_dates,    \* last exchange served by GET /api/dates
    fe_data,     \* last exchange served by GET /api/data/{date}
    fe_page,     \* last exchange served by GET / (the dashboard)
    gen_pc,      \* position in generate_data.py
    rng,         \* state of the random module's generator
    current_day, \* generate_five_days_of_garmin_data: current_day
    data_dict    \* generate_five_days_of_garmin_data: data_dict

varsInfo == <<post, get, last, first>>
varsFrontEnd == <<SAMPLE_DATA, fe_dates, fe_data, fe_page>>
varsGenerate == <<gen_pc, rng, current_day, data_dict>>
vars == <<post, get, last, first, SAMPLE_DATA, fe_dates, fe_data, fe_page,
          gen_pc, rng, current_day, data_dict>>

---------------------------------------------------------------------------
(* Bounds of the model *)

\* grid points taken on each side of every boundary of the score scale
Ulps == 1
\* number of seeds the random generator may start from
NumSeeds == 2
\* number of dates requested that are not keys of SAMPLE_DATA
NumUnknownDates == 2

---------------------------------------------------------------------------
(* Python float *)

Finite(h) == [kind |-> "finite", v |-> h]
NaN == [kind |-> "nan", v |-> 0]
PosInf == [kind |-> "inf", v |-> 1]
NegInf == [kind |-> "inf", v |-> -1]

\* the float written whole.hh in decimal, e.g. F(28, 70) is 28.7
F(whole, hundredths) == Finite(whole * 100 + hundredths)

\* int -> float, as Python converts the int operand of a mixed comparison
FromInt(n) == F(n, 0)

\* a < b on floats
Lt(a, b) ==
    IF a.kind = "nan" \/ b.kind = "nan" THEN FALSE
    ELSE IF a.kind = "inf" THEN a.v < 0 /\ ~(b.kind = "inf" /\ b.v < 0)
    ELSE IF b.kind = "inf" THEN b.v > 0
    ELSE a.v < b.v

\* a > b on floats
Gt(a, b) == Lt(b, a)

\* a == b on floats (nan is not equal to itself)
FloatEq(a, b) == a.kind # "nan" /\ b.kind # "nan" /\ a = b

\* a <= b on floats
Le(a, b) == Lt(a, b) \/ FloatEq(a, b)

---------------------------------------------------------------------------
(* Garmin_info.py *)

RangeLow == 0
RangeHigh == 72
CancelThreshold == 20

RecoveryScoreRequest(recovery_score) == [recovery_score |-> recovery_score]

TrainingResponse(training_status, recovery_hours, message) ==
    [training_status |-> training_status,
     recovery_hours |-> recovery_hours,
     message |-> message]

HTTPException(status_code, detail) == [status_code |-> status_code, detail |-> detail]

\* how a handler ends: by raising exc, or by returning ret; branch names the
\* branch of the handler's body that was taken
Raise(exc, branch) == [raised |-> TRUE, exc |-> exc, ret |-> <<>>, branch |-> branch]
Return(ret, branch) == [raised |-> FALSE, exc |-> <<>>, ret |-> ret, branch |-> branch]

\* the HTTP response the framework derives from a handler's outcome
Respond(outcome) ==
    IF outcome.raised
    THEN [status_code |-> outcome.exc.status_code,
          body |-> [detail |-> outcome.exc.detail],
          branch |-> outcome.branch]
    ELSE [status_code |-> 200, body |-> outcome.ret, branch |-> outcome.branch]

\* get_training_status with the two range tests joined by `and`
get_training_status_and(request) ==
    IF Lt(request.recovery_score, FromInt(RangeLow))
         /\ Gt(request.recovery_score, FromInt(RangeHigh))
    THEN Raise(HTTPException(400, "Recovery score must be between 0 and 72 hours"),
               "invalid_range")
    ELSE IF Gt(request.recovery_score, FromInt(CancelThreshold))
    THEN Return(TrainingResponse("cancelled", request.recovery_score,
                    "No training tomorrow, all training will be cancelled."),
                "cancelled")
    ELSE Return(TrainingResponse("continue", request.recovery_score,
                    "Training will continue as scheduled."),
                "continue")

\* get_training_status with the range tests made inclusive (<= 0, >= 72)
get_training_status_inclusive(request) ==
    IF Le(request.recovery_score, FromInt(RangeLow))
         \/ Le(FromInt(RangeHigh), request.recovery_score)
    THEN Raise(HTTPException(400, "Recovery score must be between 0 and 72 hours"),
               "invalid_range")
    ELSE IF Gt(request.recovery_score, FromInt(CancelThreshold))
    THEN Return(TrainingResponse("cancelled", request.recovery_score,
                    "No training tomorrow, all training will be cancelled."),
                "cancelled")
    ELSE Return(TrainingResponse("continue", request.recovery_score,
                    "Training will continue as scheduled."),
                "continue")

\* get_training_status echoing the score truncated to whole hours
get_training_status_truncated(request) ==
    LET s == request.recovery_score
        whole == IF s.kind = "finite" THEN Finite((s.v \div 100) * 100) ELSE s
    IN  IF Lt(s, FromInt(RangeLow)) \/ Gt(s, FromInt(RangeHigh))
        THEN Raise(HTTPException(400, "Recovery score must be between 0 and 72 hours"),
                   "invalid_range")
        ELSE IF Gt(s, FromInt(CancelThreshold))
        THEN Return(TrainingResponse("cancelled", whole,
                        "No training tomorrow, all training will be cancelled."),
                    "cancelled")
        ELSE Return(TrainingResponse("continue", whole,
                        "Training will continue as scheduled."),
                    "continue")

\* get_training_status with the message assigned in one branch only
get_training_status_one_message(request) ==
    IF Lt(request.recovery_score, FromInt(RangeLow))
         \/ Gt(request.recovery_score, FromInt(RangeHigh))
    THEN Raise(HTTPException(400, "Recovery score must be between 0 and 72 hours"),
               "invalid_range")
    ELSE IF Gt(request.recovery_score, FromInt(CancelThreshold))
    THEN Return(TrainingResponse("cancelled", request.recovery_score,
                    "Training will continue as scheduled."),
                "cancelled")
    ELSE Return(TrainingResponse("continue", request.recovery_score,
                    "Training will continue as scheduled."),
                "continue")

\* get_training_status cancelling from the threshold on (>= 20)
get_training_status_ge(request) ==
    IF Lt(request.recovery_score, FromInt(RangeLow))
         \/ Gt(request.recovery_score, FromInt(RangeHigh))
    THEN Raise(HTTPException(400, "Recovery score must be between 0 and 72 hours"),
               "invalid_range")
    ELSE IF Le(FromInt(CancelThreshold), request.recovery_score)
    THEN Return(TrainingResponse("cancelled", request.recovery_score,
                    "No training tomorrow, all training will be cancelled."),
                "cancelled")
    ELSE Return(TrainingResponse("continue", request.recovery_score,
                    "Training will continue as scheduled."),
                "continue")

\* get_training_status keeping the status of the previous POST in a module
\* global and reusing it
get_training_status_cached(request) ==
    IF Lt(request.recovery_score, FromInt(RangeLow))
         \/ Gt(request.recovery_score, FromInt(RangeHigh))
    THEN Raise(HTTPException(400, "Recovery score must be between 0 and 72 hours"),
               "invalid_range")
    ELSE IF post.served /\ post.response.status_code = 200
    THEN Return(TrainingResponse(post.response.body.training_status,
                    request.recovery_score, post.response.body.message),
                post.response.branch)
    ELSE IF Gt(request.recovery_score, FromInt(CancelThreshold))
    THEN Return(TrainingResponse("cancelled", request.recovery_score,
                    "No training tomorrow, all training will be cancelled."),
                "cancelled")
    ELSE Return(TrainingResponse("continue", request.recovery_score,
                    "Training will continue as scheduled."),
                "continue")

get_training_status(request) ==
    IF Lt(request.recovery_score, FromInt(RangeLow))
         \/ Gt(request.recovery_score, FromInt(RangeHigh))
    THEN Raise(HTTPException(400, "Recovery score must be between 0 and 72 hours"),
               "invalid_range")
    ELSE IF Gt(request.recovery_score, FromInt(CancelThreshold))
    THEN Return(TrainingResponse("cancelled", request.recovery_score,
                    "No training tomorrow, all training will be cancelled."),
                "cancelled")
    ELSE Return(TrainingResponse("continue", request.recovery_score,
                    "Training will continue as scheduled."),
                "continue")

\* the GET handler with the query parameter converted by int()
get_training_status_get_int(recovery_score) ==
    get_training_status(RecoveryScoreRequest(
        IF recovery_score.kind = "finite"
        THEN Finite((recovery_score.v \div 100) * 100) ELSE recovery_score))

get_training_status_get(recovery_score) ==
    get_training_status(RecoveryScoreRequest(recovery_score))

\* an endpoint's record of the exchange it served
NoExchange == [served |-> FALSE, recovery_score |-> NaN, response |-> <<>>]
Exchange(recovery_score, response) ==
    [served |-> TRUE, recovery_score |-> recovery_score, response |-> response]

Around(c) == {Finite(c * 100 + d) : d \in -Ulps..Ulps}

\* the recovery_score values clients send
Scores ==
    Around(RangeLow) \cup Around(CancelThreshold) \cup Around(RangeHigh)
      \cup {F(10, 0), F(45, 50), NaN, PosInf, NegInf}

InitInfo ==
    /\ post = NoExchange
    /\ get = NoExchange
    /\ last = "none"
    /\ first = [endpoint |-> "none", exchange |-> NoExchange]

\* POST /training-status with body {"recovery_score": s}
PostTrainingStatus(s) ==
    LET ex == Exchange(s, Respond(get_training_status(RecoveryScoreRequest(s)))) IN
    /\ post' = ex
    /\ last' = "POST"
    /\ first' = IF first.endpoint = "none"
                THEN [endpoint |-> "POST", exchange |-> ex] ELSE first
    /\ UNCHANGED <<get, varsFrontEnd, varsGenerate>>

\* GET /training-status?recovery_score=s
GetTrainingStatus(s) ==
    LET ex == Exchange(s, Respond(get_training_status_get(s))) IN
    /\ get' = ex
    /\ last' = "GET"
    /\ first' = IF first.endpoint = "none"
                THEN [endpoint |-> "GET", exchange |-> ex] ELSE first
    /\ UNCHANGED <<post, varsFrontEnd, varsGenerate>>

PostAny == \E s \in Scores : PostTrainingStatus(s)
GetAny == \E s \in Scores : GetTrainingStatus(s)

NextInfo == PostAny \/ GetAny

(* Python str, dict and datetime.date *)

\* A str that the program parses or builds is a sequence of one-character
\* strings; fixed texts stay TLA+ strings.
DigitChars == <<"0", "1", "2", "3", "4", "5", "6", "7", "8", "9">>
IsDigit(c) == \E i \in 1..10 : DigitChars[i] = c
DigitValue(c) == (CHOOSE i \in 1..10 : DigitChars[i] = c) - 1
DigitChar(n) == DigitChars[n + 1]

\* A dict is the sequence of its items in insertion order.
dict_keys(d) == [i \in 1..Len(d) |-> d[i].key]
dict_contains(d, k) == \E i \in 1..Len(d) : d[i].key = k
dict_getitem(d, k) == d[CHOOSE i \in 1..Len(d) : d[i].key = k].value
dict_setitem(d, k, v) ==
    IF dict_contains(d, k)
    THEN [i \in 1..Len(d) |-> IF d[i].key = k THEN [key |-> k, value |-> v] ELSE d[i]]
    ELSE Append(d, [key |-> k, value |-> v])

Date(year, month, day) == [year |-> year, month |-> month, day |-> day]

IsLeap(y) == (y % 4 = 0 /\ y % 100 # 0) \/ y % 400 = 0
DaysInMonth(y, m) ==
    IF m = 2 THEN (IF IsLeap(y) THEN 29 ELSE 28)
    ELSE IF m \in {4, 6, 9, 11} THEN 30 ELSE 31

\* d + timedelta(days=1)
add_one_day(d) ==
    IF d.day < DaysInMonth(d.year, d.month) THEN Date(d.year, d.month, d.day + 1)
    ELSE IF d.month < 12 THEN Date(d.year, d.month + 1, 1)
    ELSE Date(d.year + 1, 1, 1)

\* a <= b on dates
date_le(a, b) ==
    \/ a.year < b.year
    \/ a.year = b.year /\ a.month < b.month
    \/ a.year = b.year /\ a.month = b.month /\ a.day <= b.day

TwoDigits(n) == <<DigitChar((n \div 10) % 10), DigitChar(n % 10)>>
FourDigits(n) == <<DigitChar((n \div 1000) % 10), DigitChar((n \div 100) % 10)>> \o TwoDigits(n)

\* d.strftime("%Y-%m-%d")
strftime_iso(d) == FourDigits(d.year) \o <<"-">> \o TwoDigits(d.month) \o <<"-">> \o TwoDigits(d.day)

MonthNames ==
    <<"January", "February", "March", "April", "May", "June", "July",
      "August", "September", "October", "November", "December">>

\* d.strftime("%B %d, %Y")
strftime_long(d) ==
    <<MonthNames[d.month], " ">> \o TwoDigits(d.day) \o <<",", " ">> \o FourDigits(d.year)

Number(cs) == IF Len(cs) = 1 THEN DigitValue(cs[1])
              ELSE DigitValue(cs[1]) * 10 + DigitValue(cs[2])

\* datetime.strptime(s, "%Y-%m-%d"): a four-digit year, a month and a day of
\* one or two digits each, separated by "-"; ok is FALSE where Python raises
\* ValueError
strptime_iso(s) ==
    LET n == Len(s)
        bad == [ok |-> FALSE, value |-> Date(0, 0, 0)]
    IN  IF n < 8 \/ n > 10 THEN bad
        ELSE IF ~(\A i \in 1..4 : IsDigit(s[i])) \/ s[5] # "-" THEN bad
        ELSE LET dash == IF s[7] = "-" THEN 7 ELSE 8
                 mm == SubSeq(s, 6, dash - 1)
                 dd == SubSeq(s, dash + 1, n)
             IN  IF s[dash] # "-" \/ Len(dd) \notin {1, 2} THEN bad
                 ELSE IF ~(\A i \in 1..Len(mm) : IsDigit(mm[i]))
                           \/ ~(\A i \in 1..Len(dd) : IsDigit(dd[i])) THEN bad
                 ELSE LET y == DigitValue(s[1]) * 1000 + DigitValue(s[2]) * 100
                                 + DigitValue(s[3]) * 10 + DigitValue(s[4])
                          m == Number(mm)
                          d == Number(dd)
                      IN  IF y < 1 \/ m < 1 \/ m > 12 \/ d < 1 THEN bad
                          ELSE IF d > DaysInMonth(y, m) THEN bad
                          ELSE [ok |-> TRUE, value |-> Date(y, m, d)]

---------------------------------------------------------------------------
(* nice_front_end_of_data.py *)

FitnessMetrics(recovery_score, body_battery, sleep_hours, stress_level) ==
    [recovery_score |-> recovery_score, body_battery |-> body_battery,
     sleep_hours |-> sleep_hours, stress_level |-> stress_level]

Item(k, v) == [key |-> k, value |-> v]

SAMPLE_DATA_initial ==
    << Item(<<"2","0","2","3","-","0","1","-","0","1">>,
            FitnessMetrics(F(9, 10), F(71, 80), F(8, 10), 26)),
       Item(<<"2","0","2","3","-","0","1","-","0","2">>,
            FitnessMetrics(F(28, 70), F(75, 40), F(7, 70), 22)),
       Item(<<"2","0","2","3","-","0","1","-","0","3">>,
            FitnessMetrics(F(56, 90), F(2, 20), F(7, 60), 31)),
       Item(<<"2","0","2","3","-","0","1","-","0","4">>,
            FitnessMetrics(F(15, 10), F(52, 40), F(3, 70), 49)),
       Item(<<"2","0","2","3","-","0","1","-","0","5">>,
            FitnessMetrics(F(20, 60), F(7, 10), F(4, 50), 13)),
       Item(<<"2","0","2","3","-","0","1","-","0","6">>,
            FitnessMetrics(F(5, 30), F(12, 20), F(5, 40), 78)),
       Item(<<"2","0","2","3","-","0","1","-","0","7">>,
            FitnessMetrics(F(65, 60), F(32, 50), F(5, 80), 70)) >>

get_dates == Return(dict_keys(SAMPLE_DATA), "keys")

\* get_data_for_date answering 404 for every date but the first key
get_data_for_date_first_only(date) ==
    IF date # dict_keys(SAMPLE_DATA)[1]
    THEN Raise(HTTPException(404, <<"No data found for date ", date>>), "not_found")
    ELSE Return([date |-> date, data |-> dict_getitem(SAMPLE_DATA, date)], "found")

get_data_for_date(date) ==
    IF ~dict_contains(SAMPLE_DATA, date)
    THEN Raise(HTTPException(404, <<"No data found for date ", date>>), "not_found")
    ELSE Return([date |-> date, data |-> dict_getitem(SAMPLE_DATA, date)], "found")

\* the class and the description of a metric card: good above hi, medium
\* above lo
Grade(value, hi, lo, texts) ==
    IF Gt(value, FromInt(hi)) THEN [class |-> "good", desc |-> texts[1]]
    ELSE IF Gt(value, FromInt(lo)) THEN [class |-> "medium", desc |-> texts[2]]
    ELSE [class |-> "", desc |-> texts[3]]

\* the stress card grades downwards: good below 30, medium below 60
StressGrade(value) ==
    IF value < 30 THEN [class |-> "good", desc |-> "Low stress"]
    ELSE IF value < 60 THEN [class |-> "medium", desc |-> "Moderate stress"]
    ELSE [class |-> "", desc |-> "High stress"]

\* get_visualization marking selected the option of the date as requested,
\* before the default was applied
get_visualization_selects_requested(date) ==
    LET keys == dict_keys(SAMPLE_DATA)
        shown == IF ~dict_contains(SAMPLE_DATA, date) THEN keys[1] ELSE date
        data == dict_getitem(SAMPLE_DATA, shown)
        parsed == [i \in 1..Len(keys) |-> strptime_iso(keys[i])]
    IN  IF ~strptime_iso(shown).ok \/ \E i \in 1..Len(keys) : ~parsed[i].ok
        THEN Raise([status_code |-> 500, detail |-> "ValueError"], "value_error")
        ELSE Return(
               [display_date |-> strftime_long(strptime_iso(shown).value),
                options |-> [i \in 1..Len(keys) |->
                               [value |-> keys[i],
                                selected |-> keys[i] = date,
                                label |-> strftime_long(parsed[i].value)]],
                recovery |-> [value |-> data.recovery_score] @@
                    Grade(data.recovery_score, 50, 25,
                          <<"Excellent recovery", "Average recovery", "Poor recovery">>),
                battery |-> [value |-> data.body_battery] @@
                    Grade(data.body_battery, 50, 25,
                          <<"High energy levels", "Moderate energy", "Low energy levels">>),
                sleep |-> [value |-> data.sleep_hours] @@
                    Grade(data.sleep_hours, 7, 5,
                          <<"Well rested", "Adequate sleep", "Sleep deficit">>),
                stress |-> [value |-> data.stress_level] @@
                    StressGrade(data.stress_level)],
               IF dict_contains(SAMPLE_DATA, date) THEN "requested" ELSE "default")

\* the parts of the page that depend on the request: the subtitle, the
\* options of the date dropdown and the four metric cards
get_visualization(date) ==
    LET keys == dict_keys(SAMPLE_DATA)
        shown == IF ~dict_contains(SAMPLE_DATA, date) THEN keys[1] ELSE date
        data == dict_getitem(SAMPLE_DATA, shown)
        parsed == [i \in 1..Len(keys) |-> strptime_iso(keys[i])]
    IN  IF ~strptime_iso(shown).ok \/ \E i \in 1..Len(keys) : ~parsed[i].ok
        THEN Raise([status_code |-> 500, detail |-> "ValueError"], "value_error")
        ELSE Return(
               [display_date |-> strftime_long(strptime_iso(shown).value),
                options |-> [i \in 1..Len(keys) |->
                               [value |-> keys[i],
                                selected |-> keys[i] = shown,
                                label |-> strftime_long(parsed[i].value)]],
                recovery |-> [value |-> data.recovery_score] @@
                    Grade(data.recovery_score, 50, 25,
                          <<"Excellent recovery", "Average recovery", "Poor recovery">>),
                battery |-> [value |-> data.body_battery] @@
                    Grade(data.body_battery, 50, 25,
                          <<"High energy levels", "Moderate energy", "Low energy levels">>),
                sleep |-> [value |-> data.sleep_hours] @@
                    Grade(data.sleep_hours, 7, 5,
                          <<"Well rested", "Adequate sleep", "Sleep deficit">>),
                stress |-> [value |-> data.stress_level] @@
                    StressGrade(data.stress_level)],
               IF dict_contains(SAMPLE_DATA, date) THEN "requested" ELSE "default")

\* dates that clients ask for and that SAMPLE_DATA does not hold
OtherDates ==
    << <<"2","0","2","3","-","0","1","-","0","8">>,
       <<"2","0","2","2","-","1","2","-","3","1">>,
       <<"t","o","d","a","y">>,
       <<>>,
       <<"2","0","2","3","-","1","-","1">> >>

RequestedDates ==
    {SAMPLE_DATA_initial[i].key : i \in 1..Len(SAMPLE_DATA_initial)}
      \cup {OtherDates[i] : i \in 1..NumUnknownDates}

NoDateExchange == [served |-> FALSE, date |-> <<>>, response |-> <<>>]
DateExchange(date, response) == [served |-> TRUE, date |-> date, response |-> response]

InitFrontEnd ==
    /\ SAMPLE_DATA = SAMPLE_DATA_initial
    /\ fe_dates = NoDateExchange
    /\ fe_data = NoDateExchange
    /\ fe_page = NoDateExchange

\* GET /api/dates
GetDates ==
    /\ fe_dates' = DateExchange(<<>>, Respond(get_dates))
    /\ UNCHANGED <<SAMPLE_DATA, fe_data, fe_page, varsInfo, varsGenerate>>

\* GET /api/data/{date}
GetDataForDate ==
    \E d \in RequestedDates :
        /\ fe_data' = DateExchange(d, Respond(get_data_for_date(d)))
        /\ UNCHANGED <<SAMPLE_DATA, fe_dates, fe_page, varsInfo, varsGenerate>>

\* GET /?date=d
GetVisualization ==
    \E d \in RequestedDates :
        /\ fe_page' = DateExchange(d, Respond(get_visualization(d)))
        /\ UNCHANGED <<SAMPLE_DATA, fe_dates, fe_data, varsInfo, varsGenerate>>

NextFrontEnd == GetDates \/ GetDataForDate \/ GetVisualization

---------------------------------------------------------------------------
(* generate_data.py *)

\* The random module is a deterministic generator started from a seed the
\* program does not choose. Its state is a number below 2048 and
\* random.random() is that number over 2048: a float of [0, 1).
Seeds == 0..(NumSeeds - 1)
random_step(r) == (5 * r + 2047) % 2048

\* round-half-even of num / den to an integer, as round() does on a value it
\* represents exactly
RoundHalfEven(num, den) ==
    LET q == num \div den
        twice == 2 * (num % den)
    IN  IF twice < den THEN q
        ELSE IF twice > den THEN q + 1
        ELSE IF q % 2 = 0 THEN q ELSE q + 1

\* round(random.uniform(a, b), 1) for the generator state r:
\* a + (b - a) * random(), rounded to one decimal
round_uniform(a, b, r) ==
    Finite(10 * RoundHalfEven(10 * (a * 2048 + (b - a) * r), 2048))

\* random.randint(a, b) for the generator state r
randint(a, b, r) == a + ((b - a + 1) * r) \div 2048

start_date == Date(2023, 1, 1)
end_date == Date(2023, 3, 1)

\* day_record drawing the recovery score on the 0-100 scale of the other
\* metrics
day_record_percent(r1, r2, r3, r4) ==
    [recovery_score |-> round_uniform(0, 100, r1),
     body_battery |-> round_uniform(0, 100, r2),
     sleep_hours |-> round_uniform(3, 9, r3),
     stress_level |-> randint(0, 100, r4)]

\* lines 18-29: the record of one day, from four successive draws
day_record(r1, r2, r3, r4) ==
    [recovery_score |-> round_uniform(0, 72, r1),
     body_battery |-> round_uniform(0, 100, r2),
     sleep_hours |-> round_uniform(3, 9, r3),
     stress_level |-> randint(0, 100, r4)]

\* the loop test of line 17
loop_continues(day) == date_le(day, end_date)

InitGenerate ==
    /\ gen_pc = "import"
    /\ rng = 0
    /\ current_day = <<>>
    /\ data_dict = <<>>

\* import random: the generator is seeded
ImportRandom ==
    /\ gen_pc = "import"
    /\ rng' \in Seeds
    /\ gen_pc' = "call"
    /\ UNCHANGED <<current_day, data_dict, varsInfo, varsFrontEnd>>

\* generate_five_days_of_garmin_data, lines 12-15
EnterGenerate ==
    /\ gen_pc = "call"
    /\ current_day' = start_date
    /\ data_dict' = <<>>
    /\ gen_pc' = "while"
    /\ UNCHANGED <<rng, varsInfo, varsFrontEnd>>

\* one iteration of the while loop, lines 17-31
LoopBody ==
    /\ gen_pc = "while"
    /\ loop_continues(current_day)
    /\ LET r1 == random_step(rng)
           r2 == random_step(r1)
           r3 == random_step(r2)
           r4 == random_step(r3)
       IN  /\ data_dict' = dict_setitem(data_dict, strftime_iso(current_day),
                                        day_record(r1, r2, r3, r4))
           /\ rng' = r4
    /\ current_day' = add_one_day(current_day)
    /\ UNCHANGED <<gen_pc, varsInfo, varsFrontEnd>>

\* the loop test fails: return data_dict, line 33
ReturnData ==
    /\ gen_pc = "while"
    /\ ~loop_continues(current_day)
    /\ gen_pc' = "returned"
    /\ UNCHANGED <<rng, current_day, data_dict, varsInfo, varsFrontEnd>>

NextGenerate == ImportRandom \/ EnterGenerate \/ LoopBody \/ ReturnData

---------------------------------------------------------------------------
(* Specifications: each program of the repository is a process of its own *)

Init == InitInfo /\ InitFrontEnd /\ InitGenerate

\* the Recovery Score API
Spec == Init /\ [][NextInfo]_vars

\* the Fitness Data API
SpecFrontEnd == Init /\ [][NextFrontEnd]_vars

\* the data generator
SpecGenerate == Init /\ [][NextGenerate]_vars

\* the data generator as the interpreter runs it: a sequential program whose
\* next statement is always executed
FairSpecGenerate == SpecGenerate /\ WF_vars(NextGenerate)

---------------------------------------------------------------------------
(* Properties of the Recovery Score API (Garmin_info.py) *)

\* the exchanges visible in a state
ServedExchanges == {e \in {post, get, first.exchange} : e.served}

\* the order of the real line on the float representation (nan is in no
\* interval)
IsBelow(s, n) == (s.kind = "finite" /\ s.v < n * 100) \/ (s.kind = "inf" /\ s.v < 0)
IsAbove(s, n) == (s.kind = "finite" /\ s.v > n * 100) \/ (s.kind = "inf" /\ s.v > 0)
IsWithin(s, lo, hi) == s.kind = "finite" /\ lo * 100 <= s.v /\ s.v <= hi * 100

Produced(e) == e.response.status_code = 200

CancelMessage == "No training tomorrow, all training will be cancelled."
ContinueMessage == "Training will continue as scheduled."
ResultFields == {"training_status", "recovery_hours", "message"}

\* C1: whenever a result is produced, its status is 'cancelled' iff
\* recovery_score > 20 and 'continue' iff 0 <= recovery_score <= 20; no input
\* outside [0,20], nan included, yields 'continue'.
C1_StatusIffScore ==
    \A e \in ServedExchanges :
        Produced(e) =>
            /\ e.response.body.training_status = "cancelled"
                 <=> IsAbove(e.recovery_score, 20)
            /\ e.response.body.training_status = "continue"
                 <=> IsWithin(e.recovery_score, 0, 20)

\* C2: every recovery_score below 0 or above 72 fails with the invalid-range
\* error (400) and produces no result: no status, recovery_hours or message
\* is returned and the classification is not reached.
C2_OutOfRangeRejected ==
    \A e \in ServedExchanges :
        (IsBelow(e.recovery_score, 0) \/ IsAbove(e.recovery_score, 72)) =>
            /\ e.response.status_code = 400
            /\ DOMAIN e.response.body = {"detail"}
            /\ e.response.body.detail = "Recovery score must be between 0 and 72 hours"
            /\ e.response.branch = "invalid_range"

C2_Witness ==
    /\ post.served /\ IsAbove(post.recovery_score, 72) /\ post.response.status_code = 400
    /\ get.served /\ IsBelow(get.recovery_score, 0) /\ get.response.status_code = 400

\* C3 as stated: every recovery_score in [0,72] succeeds with 200 and a body
\* of exactly the fields status, recovery_hours and message.
C3_FieldsNamedStatus ==
    \A e \in ServedExchanges :
        IsWithin(e.recovery_score, 0, 72) =>
            /\ e.response.status_code = 200
            /\ DOMAIN e.response.body = {"status", "recovery_hours", "message"}
            /\ e.response.body.status \in {"continue", "cancelled"}

\* C3 amended: every recovery_score in [0,72] succeeds with 200, never 400,
\* and a body of exactly the fields training_status, recovery_hours and
\* message, training_status being 'continue' or 'cancelled'.
C3_ValidScoreSucceeds ==
    \A e \in ServedExchanges :
        IsWithin(e.recovery_score, 0, 72) =>
            /\ e.response.status_code = 200
            /\ DOMAIN e.response.body = ResultFields
            /\ e.response.body.training_status \in {"continue", "cancelled"}

C3_Witness ==
    /\ post.served /\ IsWithin(post.recovery_score, 0, 0) /\ Produced(post)
    /\ get.served /\ IsWithin(get.recovery_score, 72, 72) /\ Produced(get)

\* C4: for every valid recovery_score s (0 <= s <= 72) the result's
\* recovery_hours equals s.
C4_EchoesScore ==
    \A e \in ServedExchanges :
        IsWithin(e.recovery_score, 0, 72) =>
            /\ Produced(e)
            /\ e.response.body.recovery_hours.kind = "finite"
            /\ e.response.body.recovery_hours.v = e.recovery_score.v

C4_Witness ==
    /\ post.served /\ Produced(post)
    /\ post.recovery_score.kind = "finite"
    /\ post.recovery_score.v % 100 # 0
    /\ post.response.body.recovery_hours = post.recovery_score

\* C5: in every result the message is the cancellation message exactly when
\* the status is 'cancelled' and the continuation message exactly when the
\* status is 'continue'.
C5_MessageMatchesStatus ==
    \A e \in ServedExchanges :
        Produced(e) =>
            /\ e.response.body.message = CancelMessage
                 <=> e.response.body.training_status = "cancelled"
            /\ e.response.body.message = ContinueMessage
                 <=> e.response.body.training_status = "continue"

C5_Witness ==
    /\ post.served /\ Produced(post) /\ post.response.body.training_status = "cancelled"
    /\ get.served /\ Produced(get) /\ get.response.body.training_status = "continue"

StatusOf(e) == IF Produced(e) THEN e.response.body.training_status ELSE "error"

\* C6: 0 and 20 are accepted as 'continue', the smallest value above 20 and
\* 72 are accepted as 'cancelled', the nearest values below 0 and above 72
\* are rejected with the range error.
C6_Boundaries ==
    \A e \in ServedExchanges :
        /\ e.recovery_score = Finite(0) => StatusOf(e) = "continue"
        /\ e.recovery_score = Finite(20 * 100) => StatusOf(e) = "continue"
        /\ e.recovery_score = Finite(20 * 100 + 1) => StatusOf(e) = "cancelled"
        /\ e.recovery_score = Finite(72 * 100) => StatusOf(e) = "cancelled"
        /\ e.recovery_score \in {Finite(-1), Finite(72 * 100 + 1)} =>
             e.response.status_code = 400

C6_Witness ==
    /\ post.served /\ post.recovery_score = Finite(20 * 100)
    /\ StatusOf(post) = "continue"
    /\ get.served /\ get.recovery_score = Finite(20 * 100 + 1)
    /\ StatusOf(get) = "cancelled"
    /\ first.exchange.served /\ first.exchange.recovery_score = Finite(72 * 100 + 1)
    /\ first.exchange.response.status_code = 400

\* C7: GET /training-status?recovery_score=s and POST /training-status with
\* {recovery_score: s} produce the same outcome for every s.
C7_GetSameAsPost ==
    (post.served /\ get.served /\ post.recovery_score = get.recovery_score) =>
        post.response = get.response

C7_Witness ==
    /\ post.served /\ get.served
    /\ post.recovery_score = get.recovery_score
    /\ post.recovery_score.kind = "finite"
    /\ post.recovery_score.v % 100 # 0
    /\ Produced(get)

\* C8: after any sequence of earlier requests, a request with recovery_score
\* s yields the outcome it yields as the very first request.
C8_SameAsFirstRequest ==
    \A e \in ServedExchanges :
        e.recovery_score = first.exchange.recovery_score =>
            e.response = first.exchange.response

C8_Witness ==
    /\ first.endpoint = "GET" /\ last = "GET"
    /\ post.served /\ Produced(post)
    /\ post.recovery_score # first.exchange.recovery_score
    /\ post.response.branch # first.exchange.response.branch
    /\ get = first.exchange

---------------------------------------------------------------------------
(* Properties of the data generator (generate_data.py) *)

FiveDayKeys ==
    {<<"2","0","2","3","-","0","1","-","0",c>> : c \in {"1", "2", "3", "4", "5"}}
RecordKeys == {"recovery_score", "body_battery", "sleep_hours", "stress_level"}

\* C9: generate_five_days_of_garmin_data returns a mapping of exactly the
\* five date keys 2023-01-01 .. 2023-01-05, each mapped to a record with the
\* keys recovery_score, body_battery, sleep_hours and stress_level.
C9_ReturnsFiveDays ==
    gen_pc = "returned" =>
        /\ Len(data_dict) = 5
        /\ {data_dict[i].key : i \in 1..Len(data_dict)} = FiveDayKeys
        /\ \A i \in 1..Len(data_dict) : DOMAIN data_dict[i].value = RecordKeys

---------------------------------------------------------------------------
(* Properties of the Fitness Data API (nice_front_end_of_data.py) *)

IsSampleDate(d) == \E i \in 1..Len(SAMPLE_DATA_initial) : SAMPLE_DATA_initial[i].key = d
SampleRecord(d) ==
    SAMPLE_DATA_initial[CHOOSE i \in 1..Len(SAMPLE_DATA_initial) :
                            SAMPLE_DATA_initial[i].key = d].value

\* C10: GET /api/data/{date} answers 404 iff date is not a key of
\* SAMPLE_DATA and otherwise {date, data} with the requested date and its
\* stored record; every date GET /api/dates returned is retrievable with
\* 200; no request modifies SAMPLE_DATA.
C10_DataForDate ==
    /\ SAMPLE_DATA = SAMPLE_DATA_initial
    /\ fe_data.served =>
         /\ fe_data.response.status_code = 404 <=> ~IsSampleDate(fe_data.date)
         /\ IsSampleDate(fe_data.date) =>
              /\ fe_data.response.status_code = 200
              /\ fe_data.response.body =
                   [date |-> fe_data.date, data |-> SampleRecord(fe_data.date)]
    /\ (fe_dates.served /\ fe_data.served
          /\ \E i \in 1..Len(fe_dates.response.body) :
                 fe_dates.response.body[i] = fe_data.date) =>
         fe_data.response.status_code = 200

C10_Witness ==
    /\ fe_dates.served /\ Len(fe_dates.response.body) = 7
    /\ fe_page.served
    /\ fe_data.served
    /\ fe_data.date = fe_dates.response.body[7]
    /\ fe_data.response.status_code = 200
    /\ fe_data.response.body.data.stress_level = 70

ShownDate(d) == IF IsSampleDate(d) THEN d ELSE SAMPLE_DATA_initial[1].key

\* the long form of the seven sample dates, as the page prints them
LongForm(d) ==
    <<"January", " ", d[9], d[10], ",", " ", "2", "0", "2", "3">>

\* C11: GET / renders a page for any date query value: the record of the
\* date if it is a key of SAMPLE_DATA, the record of the first date
\* otherwise, never an error; exactly one option of the dropdown is selected
\* and it is the date whose record is displayed.
C11_DashboardAlwaysRenders ==
    fe_page.served =>
        /\ fe_page.response.status_code = 200
        /\ LET page == fe_page.response.body
               shown == ShownDate(fe_page.date)
               rec == SampleRecord(shown)
               sel == {i \in 1..Len(page.options) : page.options[i].selected}
           IN  /\ page.recovery.value = rec.recovery_score
               /\ page.battery.value = rec.body_battery
               /\ page.sleep.value = rec.sleep_hours
               /\ page.stress.value = rec.stress_level
               /\ page.display_date = LongForm(shown)
               /\ Len(page.options) = Len(SAMPLE_DATA_initial)
               /\ Cardinality(sel) = 1
               /\ \A i \in sel : /\ page.options[i].value = shown
                                 /\ page.options[i].label = page.display_date

\* a page served for a date that is no key: the first date is shown and selected
C11_Witness ==
    /\ fe_page.served
    /\ ~IsSampleDate(fe_page.date)
    /\ fe_page.response.status_code = 200
    /\ fe_page.response.branch = "default"
    /\ fe_page.response.body.options[1].selected
    /\ fe_page.response.body.recovery.value = F(9, 10)

---------------------------------------------------------------------------
(* Termination and range of the data generator *)

\* a < b on dates
DateBefore(a, b) == date_le(a, b) /\ a # b

\* the record's recovery_score is accepted and classified by the evaluation
Accepted(score) ==
    LET r == Respond(get_training_status(RecoveryScoreRequest(score)))
    IN  /\ r.status_code = 200
        /\ r.branch \in {"continue", "cancelled"}
        /\ r.body.training_status \in {"continue", "cancelled"}

\* C12: generate_five_days_of_garmin_data terminates, its day counter
\* strictly advancing in every iteration, and every record it produces has a
\* recovery_score within [0,72], which the training-status evaluation
\* accepts and classifies instead of rejecting it with the range error.
C12_TerminatesWithValidScores ==
    /\ <>(gen_pc = "returned")
    /\ [][(gen_pc = "while" /\ gen_pc' = "while") =>
             /\ DateBefore(current_day, current_day')
             /\ Len(data_dict') = Len(data_dict) + 1]_vars
    /\ [](\A i \in 1..Len(data_dict) :
             /\ IsWithin(data_dict[i].value.recovery_score, 0, 72)
             /\ Accepted(data_dict[i].value.recovery_score))
    \* whatever the generator draws next, not only along the seeds explored
    /\ [](\A r \in 0..2047 :
             /\ IsWithin(day_record(r, r, r, r).recovery_score, 0, 72)
             /\ Accepted(day_record(r, r, r, r).recovery_score))

\* the generator has returned, with a score at the upper end of the range,
\* scores on both sides of the threshold, and the last day at the end date
C12_Witness ==
    /\ gen_pc = "returned"
    /\ ~date_le(current_day, end_date)
    /\ Len(data_dict) > 0
    /\ data_dict[Len(data_dict)].key = strftime_iso(end_date)
    /\ \E i \in 1..Len(data_dict) : data_dict[i].value.recovery_score = F(72, 0)
    /\ \E i \in 1..Len(data_dict) : IsWithin(data_dict[i].value.recovery_score, 0, 20)
    /\ \E i \in 1..Len(data_dict) : IsAbove(data_dict[i].value.recovery_score, 20)

===========================================================================
